---- MODULE Spec2Model ----
(***************************************************************************)
(* circuits/views.py: circuit_terminations_swap, the handler that          *)
(* exchanges the side labels (A/Z) of a circuit's terminations.            *)
(*                                                                         *)
(* The record store is a relational table of CircuitTermination rows with  *)
(* a unique constraint on (circuit, term_side), read-committed isolation   *)
(* and row locks held by a transaction until it commits or rolls back.     *)
(* Every statement outside transaction.atomic() commits on its own.        *)
(***************************************************************************)
EXTENDS Integers, FiniteSets, Sequences, TLC

\* Bounds of the model.
NumCircuits == 1
MaxTerms == 2
NumRequests == 2

Circuits == 1..NumCircuits
TermIds == 1..MaxTerms
Requests == 1..NumRequests

TERM_SIDE_A == "A"
TERM_SIDE_Z == "Z"
\* Seeded fault: the naive swap, relabelling A straight to Z.
PlaceholderIsZ == TERM_SIDE_Z
PLACEHOLDER == "_"
TermSides == {TERM_SIDE_A, TERM_SIDE_Z}

\* Python's None for termination_a / termination_z, and "no lock owner".
None == 0
\* An unused primary key of the termination table.
NoRow == [circuit |-> 0, term_side |-> "-"]
Row(c, s) == [circuit |-> c, term_side |-> s]

VARIABLES
    db,             \* committed rows: primary key -> row
    owner,          \* row lock: primary key -> request whose transaction holds it
    pend,           \* uncommitted term_side of a locked row
    pc,             \* position of each request in the handler
    circuit,        \* local: the Circuit that get_object_or_404 found (its pk)
    method,         \* request.method
    form_valid,     \* ConfirmationForm(request.POST).is_valid()
    termination_a,  \* local: primary key found by the side-A lookup, or None
    termination_z,  \* local: primary key found by the side-Z lookup, or None
    response,       \* what the handler returned
    msgs,           \* django.contrib.messages queued by the handler
    exc,            \* exception that left the handler and the line that raised it
    swaps           \* history: per circuit, the <<A row, Z row>> that each committed
                    \* two-sided swap had looked up, since anything else relabelled

store == <<db, owner, pend>>
request == <<method, form_valid>>
locals == <<circuit, termination_a, termination_z>>
result == <<response, msgs, exc>>
vars == <<db, owner, pend, pc, circuit, method, form_valid, termination_a, termination_z,
          response, msgs, exc, swaps>>

Min(S) == CHOOSE x \in S : \A y \in S : x <= y

\* Rows of circuit c in table d.
TermsOf(d, c) == {id \in TermIds : d[id] # NoRow /\ d[id].circuit = c}

\* The unique constraint on (circuit, term_side).
UniqueSides(d) ==
    \A i, j \in TermIds :
        (i # j /\ d[i] # NoRow /\ d[j] # NoRow /\ d[i].circuit = d[j].circuit)
            => d[i].term_side # d[j].term_side

\* Seeded fault: exclude() for filter(), so each lookup finds the other side.
FilterFirstCrossed(d, c, s) ==
    LET m == {id \in TermsOf(d, c) : d[id].term_side # s}
    IN  IF m = {} THEN None ELSE Min(m)

\* CircuitTermination.objects.filter(circuit=c, term_side=s).first()
FilterFirst(d, c, s) ==
    LET m == {id \in TermsOf(d, c) : d[id].term_side = s}
    IN  IF m = {} THEN None ELSE Min(m)

\* What request r reads: committed rows, overlaid with its own uncommitted writes.
View(r) ==
    [id \in TermIds |->
        IF r # None /\ owner[id] = r THEN [db[id] EXCEPT !.term_side = pend[id]]
        ELSE db[id]]

\* Outcome of writing term_side s to row id of circuit c on behalf of r
\* (None: a statement of another handler): "ok", "IntegrityError" when a settled
\* row of the circuit already holds s, "wait" when the row, or a row holding s,
\* is locked by another transaction.
SaveResult(r, id, c, s) ==
    LET others  == TermsOf(db, c) \ {id}
        settled == {j \in others : owner[j] = None \/ owner[j] = r}
        foreign == others \ settled
    IN  IF owner[id] # None /\ owner[id] # r THEN "wait"
        ELSE IF View(r)[id].term_side = s THEN "ok"
        ELSE IF \E j \in settled : View(r)[j].term_side = s THEN "IntegrityError"
        ELSE IF \E j \in foreign : db[j].term_side = s \/ pend[j] = s THEN "wait"
        ELSE "ok"

NoExc == [type |-> "-", line |-> 0]
Raised(t, l) == [type |-> t, line |-> l]
NoResponse == [kind |-> "-", to |-> 0]
\* redirect('circuits:circuit', pk=c)
RedirectCircuit(c) == [kind |-> "redirect_circuit", to |-> c]
Plain(k) == [kind |-> k, to |-> 0]

Init ==
    /\ db \in [TermIds -> {NoRow} \cup {Row(c, s) : c \in Circuits, s \in TermSides}]
    /\ UniqueSides(db)
    /\ \A i, j \in TermIds : (i < j /\ db[j] # NoRow) => db[i] # NoRow
    /\ owner = [id \in TermIds |-> None]
    /\ pend = [id \in TermIds |-> "-"]
    /\ pc = [r \in Requests |-> "idle"]
    /\ circuit = [r \in Requests |-> 0]
    /\ method = [r \in Requests |-> "-"]
    /\ form_valid = [r \in Requests |-> FALSE]
    /\ termination_a = [r \in Requests |-> None]
    /\ termination_z = [r \in Requests |-> None]
    /\ response = [r \in Requests |-> NoResponse]
    /\ msgs = [r \in Requests |-> <<>>]
    /\ exc = [r \in Requests |-> NoExc]
    /\ swaps = [c \in Circuits |-> <<>>]

\* The handler returns: the response, the queued messages, the escaped exception.
\* Its locals are gone.
Return(r, resp, m, e) ==
    /\ pc' = [pc EXCEPT ![r] = "done"]
    /\ response' = [response EXCEPT ![r] = resp]
    /\ msgs' = [msgs EXCEPT ![r] = m]
    /\ exc' = [exc EXCEPT ![r] = e]
    /\ circuit' = [circuit EXCEPT ![r] = None]
    /\ termination_a' = [termination_a EXCEPT ![r] = None]
    /\ termination_z' = [termination_z EXCEPT ![r] = None]

Goto(r, next) ==
    /\ pc' = [pc EXCEPT ![r] = next]
    /\ UNCHANGED <<response, msgs, exc>>

\* Seeded fault: the up-front check rejects only when both sides exist.
NoTerminationsInverted(a, z) == a # None /\ z # None

\* if not termination_a and not termination_z
NoTerminations(a, z) == a = None /\ z = None

\* Seeded fault: form.is_valid() is not consulted.
ConfirmedAnyPost(m, v) == m = "POST"

\* if request.method == 'POST': form = ConfirmationForm(request.POST); if form.is_valid()
Confirmed(m, v) == m = "POST" /\ v

\* The request's method and form data, read when the handler examines them.
Inputs == {<<"GET", FALSE>>, <<"POST", FALSE>>, <<"POST", TRUE>>}

\* The branch of the confirmed swap: both sides, only A, only Z.
Branch(a, z) ==
    IF a # None /\ z # None THEN "save1"
    ELSE IF a # None THEN "save_a"
    ELSE "save_z"

\* @permission_required, get_object_or_404(Circuit, pk=pk) and the side-A lookup,
\* the handler's first read of the termination table.
\* Requests are numbered in the order they arrive.
LookupA(r) ==
    /\ pc[r] = "idle"
    /\ \A q \in Requests : q < r => pc[q] # "idle"
    /\ \E p \in 0..NumCircuits, has_perm \in BOOLEAN :
        IF ~has_perm THEN Return(r, Plain("redirect_login"), <<>>, NoExc)
        ELSE IF p \notin Circuits
        THEN Return(r, Plain("not_found"), <<>>, Raised("Http404", 173))
        ELSE /\ circuit' = [circuit EXCEPT ![r] = p]
             /\ termination_a' = [termination_a EXCEPT ![r] = FilterFirst(db, p, TERM_SIDE_A)]
             /\ Goto(r, "lookup_z")
             /\ UNCHANGED termination_z
    /\ UNCHANGED <<store, method, form_valid, swaps>>

\* The side-Z lookup, the handler's second read of the termination table, and
\* the checks that follow it, which touch nothing but the request and the locals.
LookupZ(r) ==
    /\ pc[r] = "lookup_z"
    /\ \E in \in Inputs :
        LET a == termination_a[r]
            z == FilterFirst(db, circuit[r], TERM_SIDE_Z)
        IN  /\ method' = [method EXCEPT ![r] = in[1]]
            /\ form_valid' = [form_valid EXCEPT ![r] = in[2]]
            /\ IF NoTerminations(a, z)
               THEN Return(r, RedirectCircuit(circuit[r]), <<"error">>, NoExc)
               ELSE IF Confirmed(in[1], in[2])
               THEN /\ termination_z' = [termination_z EXCEPT ![r] = z]
                    /\ Goto(r, Branch(a, z))
                    /\ UNCHANGED <<circuit, termination_a>>
               ELSE Return(r, Plain("render_confirm"), <<>>, NoExc)
    /\ UNCHANGED <<store, swaps>>

\* Seeded fault: no transaction.atomic(), every save() commits on its own.
AutocommitWrite(r, id, s) ==
    /\ db' = [db EXCEPT ![id].term_side = s]
    /\ UNCHANGED <<owner, pend>>

\* A save() inside transaction.atomic(): the row is locked and the new label
\* stays uncommitted.
AtomicWrite(r, id, s) ==
    /\ owner' = [owner EXCEPT ![id] = r]
    /\ pend' = [pend EXCEPT ![id] = s]
    /\ UNCHANGED db

\* Seeded fault: the exception is swallowed inside the block, so what was
\* written so far is committed.
RollbackCommits(r) ==
    /\ db' = View(r)
    /\ owner' = [id \in TermIds |-> IF owner[id] = r THEN None ELSE owner[id]]
    /\ pend' = [id \in TermIds |-> IF owner[id] = r THEN "-" ELSE pend[id]]

\* Leaving transaction.atomic() on an exception.
Rollback(r) ==
    /\ owner' = [id \in TermIds |-> IF owner[id] = r THEN None ELSE owner[id]]
    /\ pend' = [id \in TermIds |-> IF owner[id] = r THEN "-" ELSE pend[id]]
    /\ UNCHANGED db

\* obj.term_side = s; obj.save() at source line l inside the transaction.  The
\* store may refuse any statement (DatabaseError: connection lost, deadlock
\* victim, ...); the exception leaves the handler, which answers 500.
TxnSave(r, id, s, l, next) ==
    \E fail \in BOOLEAN :
        LET res == IF fail THEN "DatabaseError" ELSE SaveResult(r, id, circuit[r], s)
        IN  /\ res # "wait"
            /\ IF res = "ok"
               THEN AtomicWrite(r, id, s) /\ Goto(r, next) /\ UNCHANGED locals
               ELSE Rollback(r) /\ Return(r, Plain("server_error"), <<>>, Raised(res, l))

Save1(r) ==
    /\ pc[r] = "save1"
    /\ TxnSave(r, termination_a[r], PLACEHOLDER, 187, "save2")
    /\ UNCHANGED <<request, swaps>>

Save2(r) ==
    /\ pc[r] = "save2"
    /\ TxnSave(r, termination_z[r], TERM_SIDE_A, 189, "save3")
    /\ UNCHANGED <<request, swaps>>

\* Seeded fault: the third relabel is forgotten.
Save3Skipped(r) ==
    /\ pc[r] = "save3"
    /\ Goto(r, "commit")
    /\ UNCHANGED <<store, request, locals, swaps>>

Save3(r) ==
    /\ pc[r] = "save3"
    /\ TxnSave(r, termination_a[r], TERM_SIDE_Z, 191, "commit")
    /\ UNCHANGED <<request, swaps>>

\* Leaving transaction.atomic() normally, then messages.success and the redirect.
Commit(r) ==
    /\ pc[r] = "commit"
    /\ db' = View(r)
    /\ owner' = [id \in TermIds |-> IF owner[id] = r THEN None ELSE owner[id]]
    /\ pend' = [id \in TermIds |-> IF owner[id] = r THEN "-" ELSE pend[id]]
    /\ Return(r, RedirectCircuit(circuit[r]), <<"success">>, NoExc)
    /\ swaps' = [swaps EXCEPT ![circuit[r]] = Append(@, <<termination_a[r], termination_z[r]>>)]
    /\ UNCHANGED request

\* obj.term_side = s; obj.save() at source line l outside any transaction, then
\* messages.success and the redirect.  obj is None only if the up-front check
\* let the request by.
SingleSave(r, id, s, l) ==
    \E fail \in BOOLEAN :
        LET res == IF id = None THEN "AttributeError"
                   ELSE IF fail THEN "DatabaseError"
                   ELSE SaveResult(r, id, circuit[r], s)
        IN  /\ res # "wait"
            /\ IF res = "ok"
               THEN /\ db' = [db EXCEPT ![id] = Row(circuit[r], s)]
                    /\ Return(r, RedirectCircuit(circuit[r]), <<"success">>, NoExc)
                    /\ swaps' = [swaps EXCEPT ![circuit[r]] = <<>>]
               ELSE /\ UNCHANGED <<db, swaps>>
                    /\ Return(r, Plain("server_error"), <<>>, Raised(res, l))
            /\ UNCHANGED <<owner, pend>>

\* Seeded fault: the only-A branch writes 'A' back.
SaveAKeepsSide(r) ==
    /\ pc[r] = "save_a"
    /\ SingleSave(r, termination_a[r], TERM_SIDE_A, 194)
    /\ UNCHANGED request

SaveA(r) ==
    /\ pc[r] = "save_a"
    /\ SingleSave(r, termination_a[r], TERM_SIDE_Z, 194)
    /\ UNCHANGED request

SaveZ(r) ==
    /\ pc[r] = "save_z"
    /\ SingleSave(r, termination_z[r], TERM_SIDE_A, 197)
    /\ UNCHANGED request

\* CircuitTerminationEditView adding a termination to circuit c.
CreateTermination(c, s) ==
    LET free == {id \in TermIds : db[id] = NoRow}
    IN  /\ free # {}
        /\ SaveResult(None, Min(free), c, s) = "ok"
        /\ db' = [db EXCEPT ![Min(free)] = Row(c, s)]
        /\ swaps' = [swaps EXCEPT ![c] = <<>>]
        /\ UNCHANGED <<owner, pend, pc, request, locals, result>>

\* CircuitTerminationEditView changing the side of termination id.
EditTermination(id, s) ==
    /\ db[id] # NoRow
    /\ db[id].term_side # s
    /\ SaveResult(None, id, db[id].circuit, s) = "ok"
    /\ db' = [db EXCEPT ![id].term_side = s]
    /\ swaps' = [swaps EXCEPT ![db[id].circuit] = <<>>]
    /\ UNCHANGED <<owner, pend, pc, request, locals, result>>

Next ==
    \/ \E r \in Requests : LookupA(r)
    \/ \E r \in Requests : LookupZ(r)
    \/ \E r \in Requests : Save1(r)
    \/ \E r \in Requests : Save2(r)
    \/ \E r \in Requests : Save3(r)
    \/ \E r \in Requests : Commit(r)
    \/ \E r \in Requests : SaveA(r)
    \/ \E r \in Requests : SaveZ(r)
    \/ \E c \in Circuits, s \in TermSides : CreateTermination(c, s)
    \/ \E id \in TermIds, s \in TermSides : EditTermination(id, s)

\* Requests served concurrently, interleaved with the other handlers.
Spec == Init /\ [][Next]_vars

\* One request at a time: a request runs from dispatch to return with nothing
\* else in between.
Quiet(r) == \A q \in Requests \ {r} : pc[q] \in {"idle", "done"}
AllQuiet == \A q \in Requests : pc[q] \in {"idle", "done"}

NextSeq ==
    \/ \E r \in Requests : Quiet(r) /\ LookupA(r)
    \/ \E r \in Requests : Quiet(r) /\ LookupZ(r)
    \/ \E r \in Requests : Quiet(r) /\ Save1(r)
    \/ \E r \in Requests : Quiet(r) /\ Save2(r)
    \/ \E r \in Requests : Quiet(r) /\ Save3(r)
    \/ \E r \in Requests : Quiet(r) /\ Commit(r)
    \/ \E r \in Requests : Quiet(r) /\ SaveA(r)
    \/ \E r \in Requests : Quiet(r) /\ SaveZ(r)
    \/ \E c \in Circuits, s \in TermSides : AllQuiet /\ CreateTermination(c, s)
    \/ \E id \in TermIds, s \in TermSides : AllQuiet /\ EditTermination(id, s)

SpecSeq == Init /\ [][NextSeq]_vars

(***************************************************************************)
(* Properties                                                              *)
(***************************************************************************)

Side(d, id) == d[id].term_side
Returned(r) == pc[r] = "done"
Succeeded(r) == Returned(r) /\ msgs[r] = <<"success">> /\ exc[r] = NoExc
TxnLines == {187, 189, 191}
SingleLines == {194, 197}

\* C1: when a two-sided swap commits, the record that was labelled A is
\* labelled Z, the record that was labelled Z is labelled A, and success is
\* reported with a redirect to the circuit.
C1_SwapExchangesLabels ==
    [][\A r \in Requests :
        (pc[r] = "commit" /\ pc'[r] = "done") =>
            LET a == termination_a[r]
                z == termination_z[r]
            IN  /\ a # None /\ z # None /\ a # z
                /\ Side(db, a) = TERM_SIDE_A /\ Side(db, z) = TERM_SIDE_Z
                /\ Side(db', a) = TERM_SIDE_Z /\ Side(db', z) = TERM_SIDE_A
                /\ \A j \in TermIds \ {a, z} : db'[j] = db[j]
                /\ msgs'[r] = <<"success">>
                /\ response'[r] = RedirectCircuit(circuit[r])]_vars

\* A swap of a two-termination circuit has committed and reported success.
C1_Witness ==
    \E r \in Requests, c \in Circuits :
        /\ Succeeded(r) /\ response[r] = RedirectCircuit(c)
        /\ Len(swaps[c]) = 1
        /\ Side(db, swaps[c][1][1]) = TERM_SIDE_Z
        /\ Side(db, swaps[c][1][2]) = TERM_SIDE_A

\* C2: after each of the three relabel steps of a two-sided swap the labels the
\* transaction has written so far are pairwise distinct within the circuit, and
\* none of the three saves is refused for the (circuit, side) constraint.
C2_NoTransientDuplicate ==
    \A r \in Requests :
        /\ pc[r] \in {"save2", "save3", "commit"} => UniqueSides(View(r))
        /\ pc[r] \in {"save2", "save3"} => Side(View(r), termination_a[r]) = "_"
        /\ exc[r].type = "IntegrityError" => exc[r].line \notin TxnLines

\* The placeholder state: step one has relabelled the A record, step two has not run.
C2_Witness ==
    \E r \in Requests :
        /\ pc[r] = "save2"
        /\ Side(View(r), termination_a[r]) = "_"
        /\ Side(View(r), termination_z[r]) = TERM_SIDE_Z

\* C3: in every committed state every termination is labelled A or Z and no two
\* terminations of a circuit share a label.
C3_CommittedLabelsValid ==
    /\ \A id \in TermIds : db[id] # NoRow => Side(db, id) \in TermSides
    /\ UniqueSides(db)

\* A swap is half done: the placeholder is written but not committed, while
\* another request is being served.
C3_Witness ==
    \E r, q \in Requests :
        /\ r # q
        /\ pc[r] = "save3" /\ pend[termination_a[r]] = "_"
        /\ pc[q] \notin {"idle", "done"}

\* C4: when a save inside the transaction fails, the committed labels are left
\* as they were before the operation (A on the side-A record, Z on the side-Z
\* record), no lock or uncommitted label remains, and the handler ends with the
\* server error and no success message.
C4_FailureRollsBack ==
    [][\A r \in Requests :
        (pc[r] \in {"save1", "save2", "save3"} /\ exc'[r] # NoExc) =>
            /\ db' = db
            /\ Side(db', termination_a[r]) = TERM_SIDE_A
            /\ Side(db', termination_z[r]) = TERM_SIDE_Z
            /\ \A id \in TermIds : owner'[id] # r
            /\ pc'[r] = "done"
            /\ response'[r] = Plain("server_error")
            /\ msgs'[r] = <<>>]_vars

\* The second of the three saves has failed.
C4_Witness ==
    \E r \in Requests :
        /\ Returned(r)
        /\ exc[r] = Raised("DatabaseError", 189)
        /\ response[r] = Plain("server_error")

\* C5: a request for a circuit without terminations is answered, whatever its
\* method and form data, with an error message and a redirect to the circuit;
\* nothing is written and the circuit still has no termination.
C5_NoTerminationsRejected ==
    [][\A r \in Requests :
        (/\ pc[r] = "lookup_z" /\ pc'[r] # pc[r]
         /\ termination_a[r] = None
         /\ \A id \in TermsOf(db, circuit[r]) : Side(db, id) # TERM_SIDE_Z) =>
            /\ pc'[r] = "done"
            /\ response'[r] = RedirectCircuit(circuit[r])
            /\ msgs'[r] = <<"error">>
            /\ exc'[r] = NoExc
            /\ store' = store
            /\ TermsOf(db', circuit[r]) = {}]_vars

\* A confirmed POST for a circuit without terminations has been rejected.
C5_Witness ==
    \E r \in Requests :
        /\ Returned(r)
        /\ msgs[r] = <<"error">>
        /\ response[r].kind = "redirect_circuit"
        /\ TermsOf(db, response[r].to) = {}
        /\ method[r] = "POST" /\ form_valid[r]

\* C6: a confirmed swap of a circuit with one termination flips that record's
\* label (A to Z, Z to A) with one update, changes no other record and leaves
\* the circuit with that one termination.
C6_SingleTerminationFlips ==
    [][\A r \in Requests :
        (pc[r] \in {"save_a", "save_z"} /\ pc'[r] = "done" /\ exc'[r] = NoExc) =>
            LET id   == IF pc[r] = "save_a" THEN termination_a[r] ELSE termination_z[r]
                from == IF pc[r] = "save_a" THEN TERM_SIDE_A ELSE TERM_SIDE_Z
                to   == IF pc[r] = "save_a" THEN TERM_SIDE_Z ELSE TERM_SIDE_A
            IN  /\ TermsOf(db, circuit[r]) = {id}
                /\ Side(db, id) = from
                /\ Side(db', id) = to
                /\ TermsOf(db', circuit[r]) = {id}
                /\ \A j \in TermIds \ {id} : db'[j] = db[j]
                /\ msgs'[r] = <<"success">>]_vars

\* A swap has succeeded on a circuit that has a single termination.
C6_Witness ==
    \E r \in Requests, c \in Circuits, id \in TermIds :
        /\ Succeeded(r) /\ response[r] = RedirectCircuit(c)
        /\ swaps[c] = <<>>
        /\ TermsOf(db, c) = {id}

\* C7: a step of a request that is not a POST with a valid confirmation form
\* writes nothing and reports no success; once the up-front check has passed,
\* such a request is answered with the confirmation prompt.
C7_OnlyConfirmedPostMutates ==
    [][\A r \in Requests :
        (pc'[r] # pc[r] /\ ~(method'[r] = "POST" /\ form_valid'[r])) =>
            /\ store' = store
            /\ msgs'[r] # <<"success">>
            /\ (/\ pc[r] = "lookup_z"
                /\ ~(/\ termination_a[r] = None
                     /\ FilterFirst(db, circuit[r], TERM_SIDE_Z) = None)) =>
                    /\ pc'[r] = "done"
                    /\ response'[r] = Plain("render_confirm")
                    /\ msgs'[r] = <<>>]_vars

\* A POST whose confirmation form did not validate got the prompt again.
C7_Witness ==
    \E r \in Requests :
        /\ Returned(r)
        /\ response[r] = Plain("render_confirm")
        /\ method[r] = "POST" /\ ~form_valid[r]

\* C8: when a two-sided swap commits right after another two-sided swap of the
\* same circuit, both records carry the labels the earlier swap had found.
C8_TwoSwapsRestore ==
    [][\A r \in Requests :
        (pc[r] = "commit" /\ pc'[r] = "done" /\ swaps[circuit[r]] # <<>>) =>
            LET first == swaps[circuit[r]][Len(swaps[circuit[r]])]
            IN  /\ Side(db, first[1]) = TERM_SIDE_Z /\ Side(db, first[2]) = TERM_SIDE_A
                /\ Side(db', first[1]) = TERM_SIDE_A /\ Side(db', first[2]) = TERM_SIDE_Z]_vars

\* Two swaps of one circuit have committed in succession.
C8_Witness ==
    \E c \in Circuits :
        /\ Len(swaps[c]) = 2
        /\ swaps[c][2] = <<swaps[c][1][2], swaps[c][1][1]>>
        /\ Side(db, swaps[c][1][1]) = TERM_SIDE_A
        /\ Side(db, swaps[c][1][2]) = TERM_SIDE_Z

\* C9: after two two-sided swaps of a circuit have committed, however their steps
\* were interleaved, both records carry the labels the first swap had found.
C9_InterleavedSwapsRestore ==
    \A c \in Circuits :
        Len(swaps[c]) = 2 =>
            /\ Side(db, swaps[c][1][1]) = TERM_SIDE_A
            /\ Side(db, swaps[c][1][2]) = TERM_SIDE_Z

\* C10: the single update of the one-termination branches is never refused for
\* the (circuit, side) constraint.
C10_SingleUpdateNeverConflicts ==
    \A r \in Requests :
        exc[r].type = "IntegrityError" => exc[r].line \notin SingleLines

====
